---- MODULE Spec2Model ----
(***************************************************************************)
(* Model of the real-time substrate of atomic-dsp-graph.                   *)
(*                                                                         *)
(* Part 1: LockFreeRingBuffer<T, Size> (ring_buffer.h), one producer       *)
(* thread calling push and one consumer thread calling pop.  Every atomic  *)
(* load, every slot access and every atomic store is one step, so TLC      *)
(* explores every interleaving of the two threads.  The slot assignment    *)
(* buffer[currentWrite] = item is a plain (non-atomic) copy of a T, so it  *)
(* takes two steps: between them the slot holds the value Partial.         *)
(* Each position has a single writer and is published with a release store *)
(* that the other thread reads with an acquire load, so the steps of the   *)
(* two threads are interleaved in one global order.                        *)
(***************************************************************************)
EXTENDS Integers, Sequences, FiniteSets, TLC

\* ---- bounds of the model ----
Size == 3          \* template parameter Size of LockFreeRingBuffer<T, Size>
MaxPush == 6       \* number of push calls the producer thread makes
MaxCycles == 3     \* number of fast-path cycles the consumer loop runs
BlockLen == 2      \* samples in one emitted block
MaxPush2 == 3      \* number of push calls two producers make between them
WordBits == 8      \* width of size_t in the model
MaxCap == 64       \* largest arena capacity
MaxAllocs == 4     \* number of allocate calls made on the arena
MaxResets == 1     \* number of reset calls made on the arena
MaxLen == 17       \* largest AudioBuffer size
MaxDur == 4        \* largest FadeNode duration, in samples
MaxFadeLen == 5    \* largest AudioBuffer size passed to FadeNode::process
MaxFadeCalls == 3  \* number of process calls made on one FadeNode
MaxFadeResets == 1 \* number of reset calls made on one FadeNode
MaxLoads == 2      \* number of loadFiles calls made on the engine
MaxProcess == 2    \* number of process calls made on the engine

\* ---- values a slot can hold ----
Garbage == 0 - 1   \* a slot of the default-initialised std::array (indeterminate)
Partial == 0 - 2   \* a slot whose assignment is in progress
Unset == 0         \* the caller's output variable before any pop wrote it (int val;)

VARIABLES
    buffer,        \* std::array<T, Size> buffer
    writePos,      \* std::atomic<size_t> writePos
    readPos,       \* std::atomic<size_t> readPos
    ppc,           \* producer: line of push it is about to execute, or "idle"
    currentWrite,  \* push: local currentWrite
    nextWrite,     \* push: local nextWrite
    pItem,         \* push: argument item
    pRet,          \* push: value returned by the last call ("none" before the first)
    cpc,           \* consumer: line of pop it is about to execute, or "idle"
    currentRead,   \* pop: local currentRead
    item,          \* pop: the caller's output variable (T& item)
    cRet,          \* pop: value returned by the last call
    nPush,         \* number of push calls made so far (the k-th call pushes the value k)
    pushed,        \* history: values whose writePos store has happened, in order
    popped,        \* history: values returned by successful pops, in order
    log,           \* history: the last four decisions (push full-check, pop readPos store)
    streak,        \* history: push results since the queue was last empty with no pop since
    pSteps,        \* steps the current / last push call has taken
    cSteps,        \* steps the current / last pop call has taken
    pSnap,         \* writePos, buffer and pushed as they were when the push call began
    cSnap,         \* readPos and item as they were when the pop call began
    cycPc,         \* fast-path loop: "start" of a cycle or "pop" (pop attempted)
    cycles,        \* fast-path loop: completed cycles
    out            \* fast-path loop: block emitted by the last completed cycle

\* a second thread calling push on the same queue
VARIABLES
    p2pc,          \* second producer: line of push it is about to execute, or "idle"
    currentWrite2, \* second producer's push: local currentWrite
    nextWrite2,    \* second producer's push: local nextWrite
    p2Item,        \* second producer's push: argument item
    p2Ret,         \* second producer's push: value returned by the last call
    n2Push,        \* number of push calls the second producer has made
    p2Start,       \* history: nPush when the second producer's call began
    overlap        \* history: a push of one producer ran during a push of the other

\* MemoryArena
VARIABLES
    offset,        \* size_t offset
    capacity,      \* buffer.size()
    ctorSize,      \* the constructor argument size
    base,          \* buffer.data(), the address of the pool
    aCalls,        \* history: allocate calls since construction or the last reset
    aPrev,         \* history: allocate calls of the epoch before the last reset
    aCum,          \* history: sum of padding + size of the calls since the last reset
    aLast,         \* history: the last operation on the arena and what it did
    nAlloc,        \* number of allocate calls made so far
    nReset         \* number of reset calls made so far

\* GainNode::process and MixerNode::mix
VARIABLES
    avx,           \* whether the build defines __AVX__
    gain,          \* GainNode::gain
    gData,         \* memory at buffer.data (the buffer and what lies behind it)
    gSize,         \* buffer.size
    gPc,           \* line of processImpl about to execute, "idle" or "done"
    gI,            \* loop variable i
    gSimd,         \* local simdSize
    gIn,           \* history: gData when process was called
    gWrites,       \* history: number of stores to each cell
    gHigh,         \* history: highest cell index loaded or stored, -1 if none
    mIn1,          \* memory at in1.data
    mIn2,          \* memory at in2.data
    mOut,          \* memory at out.data
    mSize1,        \* in1.size
    mSize2,        \* in2.size
    mSizeO,        \* out.size
    mPc,           \* line of mix about to execute, "idle" or "done"
    mI,            \* loop variable i
    mLen,          \* local len
    mSimd,         \* local simdSize
    mWrites,       \* history: number of stores to each cell of out
    mHigh          \* history: highest cell index loaded or stored, -1 if none

\* FadeNode
VARIABLES
    duration,      \* FadeNode::duration
    currentSample, \* FadeNode::currentSample
    fadeIn,        \* FadeNode::fadeIn
    fData,         \* the samples of the AudioBuffer being processed
    fPc,           \* line of processImpl about to execute, or "idle"
    fI,            \* loop variable i
    fLog,          \* history: input and output of every sample processed since
                   \* construction or the last reset, with the call it belonged to
    nFade,         \* number of process calls made so far
    nFadeReset,    \* number of reset calls made so far
    fResetAt       \* history: currentSample when reset was last called, -1 if never

\* AudioEngine (its member arena is the MemoryArena above)
VARIABLES
    buffer1,       \* std::vector<float> buffer1
    buffer2,       \* std::vector<float> buffer2
    outputBuffer,  \* std::vector<float> outputBuffer
    sampleRate,    \* uint32_t sampleRate
    channels,      \* uint16_t channels
    eLast,         \* history: the last call on the engine, its arguments, what it
                   \* returned and the engine's members when it was made
    nLoad,         \* number of loadFiles calls made so far
    nProc          \* number of process calls made so far

vars == <<buffer, writePos, readPos, ppc, currentWrite, nextWrite, pItem, pRet,
          cpc, currentRead, item, cRet, nPush, pushed, popped, log, streak,
          pSteps, cSteps, pSnap, cSnap, cycPc, cycles, out,
          p2pc, currentWrite2, nextWrite2, p2Item, p2Ret, n2Push, p2Start, overlap,
          offset, capacity, ctorSize, base, aCalls, aPrev, aCum, aLast, nAlloc, nReset,
          avx, gain, gData, gSize, gPc, gI, gSimd, gIn, gWrites, gHigh,
          mIn1, mIn2, mOut, mSize1, mSize2, mSizeO, mPc, mI, mLen, mSimd, mWrites, mHigh,
          duration, currentSample, fadeIn, fData, fPc, fI, fLog, nFade, nFadeReset, fResetAt,
          buffer1, buffer2, outputBuffer, sampleRate, channels, eLast, nLoad, nProc>>

gainVars == <<gain, gData, gSize, gPc, gI, gSimd, gIn, gWrites, gHigh>>
mixVars == <<mIn1, mIn2, mOut, mSize1, mSize2, mSizeO, mPc, mI, mLen, mSimd, mWrites, mHigh>>
fadeVars == <<duration, currentSample, fadeIn, fData, fPc, fI, fLog, nFade, nFadeReset, fResetAt>>
engVars == <<buffer1, buffer2, outputBuffer, sampleRate, channels, eLast, nLoad, nProc>>
nodeVars == <<avx, gainVars, mixVars, fadeVars, engVars>>

p2Vars == <<p2pc, currentWrite2, nextWrite2, p2Item, p2Ret, n2Push, p2Start, overlap>>
arenaVars == <<offset, capacity, ctorSize, base, aCalls, aPrev, aCum, aLast, nAlloc, nReset>>
\* everything that is not the queue, its two threads or the fast-path loop
restVars == <<p2Vars, arenaVars, nodeVars>>
ringVars == <<buffer, writePos, readPos, ppc, currentWrite, nextWrite, pItem, pRet,
              cpc, currentRead, item, cRet, nPush, pushed, popped, log, streak,
              pSteps, cSteps, pSnap, cSnap, cycPc, cycles, out>>

Slots == 0 .. (Size - 1)
StepCap == 8       \* the step counters stop counting here

\* ---- pure expressions of push and pop ----

\* line 16: (currentWrite + 1) % Size
NextWrite(cw) == (cw + 1) % Size

NextReadSkip(cr) == (cr + 2) % Size
\* line 35: (currentRead + 1) % Size
NextRead(cr) == (cr + 1) % Size

FullNever(nw, r) == FALSE
FullEarly(nw, r) == nw = r \/ NextWrite(nw) = r
\* line 18: nextWrite == readPos.load(acquire)
Full(nw, r) == nw = r

EmptyNever(cr, w) == FALSE
\* line 30: currentRead == writePos.load(acquire)
Empty(cr, w) == cr = w

\* ---- history helpers ----
Last4(s) == IF Len(s) > 4 THEN SubSeq(s, Len(s) - 3, Len(s)) ELSE s
Bump(n) == IF n < StepCap THEN n + 1 ELSE n
Count == Len(pushed) - Len(popped)

cycVars == <<cycPc, cycles, out>>
prodLocals == <<currentWrite, nextWrite, pItem, pRet>>
consLocals == <<currentRead, item, cRet>>
consAll == <<cpc, currentRead, item, cRet, cSteps, cSnap, popped>>
prodAll == <<ppc, currentWrite, nextWrite, pItem, pRet, pSteps, pSnap, pushed, nPush>>

\* ---- MemoryArena: values ----
Word == 2 ^ WordBits
\* alignment operator new guarantees for the pool of std::vector<uint8_t>
NewAlign == 16
\* marks an allocate call that threw std::bad_alloc
Throw == 0 - 1
\* constructor arguments, pool addresses, and the arguments of allocate
Capacities == {MaxCap \div 2, MaxCap}
Bases == {2 * NewAlign, 3 * NewAlign}
Sizes == {0, 1, NewAlign, Word - 8}
Aligns == {NewAlign, 2 * NewAlign}

\* the second producer has not been started
P2Init ==
    /\ p2pc = "idle" /\ currentWrite2 = 0 /\ nextWrite2 = 0 /\ p2Item = 0
    /\ p2Ret = "none" /\ n2Push = 0 /\ p2Start = 0 /\ overlap = FALSE

\* explicit MemoryArena(size_t size) : buffer(size) (line 55), offset = 0 (line 52)
ArenaNew(size, addr) ==
    /\ offset = 0
    /\ capacity = size
    /\ ctorSize = size
    /\ base = addr
    /\ aCalls = <<>> /\ aPrev = <<>> /\ aCum = 0
    /\ aLast = [op |-> "new", size |-> 0, al |-> 1, pad |-> 0, before |-> 0,
                threw |-> FALSE, ptr |-> Throw]
    /\ nAlloc = 0 /\ nReset = 0

\* ---- audio nodes: values ----
\* samples per __m256 register (lines 32, 35, 76, 77)
VecWidth == 8
\* cells of modelled memory behind each data pointer
Cells == 0 .. (MaxLen + VecWidth - 1)
\* gain factors
Gains == {0 - 1, 0, 2}
\* sample contents: a ramp, or all ones
Ramp == [i \in Cells |-> i + 1]
Ones == [i \in Cells |-> 1]
\* contents of the two mixer inputs and of the output before the call
In1Data == [i \in Cells |-> i + 1]
In2Data == [i \in Cells |-> 10 * (i + 1)]
OutData == [i \in Cells |-> 0 - (i + 1)]

\* GainNode(g) (line 28) and an AudioBuffer(d, n) (lines 12-13) holding data
GainNew(g, data, n) ==
    /\ gain = g
    /\ gData = data /\ gIn = data
    /\ gSize = n
    /\ gPc = "idle" /\ gI = 0 /\ gSimd = 0
    /\ gWrites = [i \in Cells |-> 0]
    /\ gHigh = 0 - 1

\* three AudioBuffers of sizes n1, n2, no for mix
MixNew(n1, n2, no) ==
    /\ mIn1 = In1Data /\ mIn2 = In2Data /\ mOut = OutData
    /\ mSize1 = n1 /\ mSize2 = n2 /\ mSizeO = no
    /\ mPc = "idle" /\ mI = 0 /\ mLen = 0 /\ mSimd = 0
    /\ mWrites = [i \in Cells |-> 0]
    /\ mHigh = 0 - 1

\* FadeNode(durationSamples, in) (lines 52-53), currentSample = 0 (line 49)
FadeNew(d, in) ==
    /\ duration = d
    /\ currentSample = 0
    /\ fadeIn = in
    /\ fData = <<>>
    /\ fPc = "idle" /\ fI = 0
    /\ fLog = <<>>
    /\ nFade = 0 /\ nFadeReset = 0 /\ fResetAt = 0 - 1

\* the members of an engine: three empty vectors, sampleRate = 44100 and
\* channels = 2 (ARCHITECTURE.md lines 689-691)
Members(b1, b2, o, sr, ch) == [b1 |-> b1, b2 |-> b2, out |-> o, sr |-> sr, ch |-> ch]
EngineNew ==
    /\ buffer1 = <<>> /\ buffer2 = <<>> /\ outputBuffer = <<>>
    /\ sampleRate = 44100
    /\ channels = 2
    /\ eLast = [op |-> "new", ret |-> TRUE, fresh |-> FALSE,
                before |-> Members(<<>>, <<>>, <<>>, 44100, 2)]
    /\ nLoad = 0 /\ nProc = 0

\* no audio node is in use
NodesIdle ==
    /\ avx = TRUE
    /\ GainNew(2, Ones, 0)
    /\ MixNew(0, 0, 0)
    /\ FadeNew(1, TRUE)
    /\ EngineNew

RingInit ==
    /\ buffer = [s \in Slots |-> Garbage]
    /\ writePos = 0
    /\ readPos = 0
    /\ ppc = "idle" /\ currentWrite = 0 /\ nextWrite = 0 /\ pItem = 0 /\ pRet = "none"
    /\ cpc = "idle" /\ currentRead = 0 /\ item = Unset /\ cRet = "none"
    /\ nPush = 0 /\ pushed = <<>> /\ popped = <<>> /\ log = <<>>
    /\ streak = [valid |-> TRUE, res |-> <<>>]
    /\ pSteps = 0 /\ cSteps = 0
    /\ pSnap = [w |-> 0, buf |-> [s \in Slots |-> Garbage], pushed |-> <<>>]
    /\ cSnap = [r |-> 0, item |-> Unset]
    /\ cycPc = "start" /\ cycles = 0 /\ out = <<>>

Init ==
    /\ RingInit
    /\ P2Init
    /\ ArenaNew(MaxCap, 2 * NewAlign)
    /\ NodesIdle

\* ---- push (producer thread) ----

\* the producer calls push(item); the k-th call passes the value k
PushCall ==
    /\ ppc = "idle"
    /\ nPush < MaxPush
    /\ nPush' = nPush + 1
    /\ pItem' = nPush + 1
    /\ ppc' = "L15"
    /\ pSteps' = 0
    /\ pSnap' = [w |-> writePos, buf |-> buffer, pushed |-> pushed]
    /\ streak' = IF writePos = readPos /\ cpc = "idle"
                 THEN [valid |-> TRUE, res |-> <<>>]
                 ELSE streak
    /\ UNCHANGED <<buffer, writePos, readPos, currentWrite, nextWrite, pRet,
                   pushed, popped, log, consAll, cycVars, restVars>>

PushLoadWriteEarly ==
    /\ ppc = "L15"
    /\ currentWrite' = writePos
    /\ nextWrite' = NextWrite(writePos)
    /\ buffer' = [buffer EXCEPT ![writePos] = pItem]
    /\ ppc' = "L18"
    /\ pSteps' = Bump(pSteps)
    /\ UNCHANGED <<writePos, readPos, pItem, pRet, nPush, pushed, popped,
                   log, streak, pSnap, consAll, cycVars, restVars>>
\* lines 15-16: currentWrite = writePos.load(relaxed); nextWrite = (currentWrite+1) % Size
PushLoad ==
    /\ ppc = "L15"
    /\ currentWrite' = writePos
    /\ nextWrite' = NextWrite(writePos)
    /\ ppc' = "L18"
    /\ pSteps' = Bump(pSteps)
    /\ UNCHANGED <<buffer, writePos, readPos, pItem, pRet, nPush, pushed, popped,
                   log, streak, pSnap, consAll, cycVars, restVars>>

PushCheckSpin ==
    /\ ppc = "L18"
    /\ IF Full(nextWrite, readPos)
       THEN /\ ppc' = "L18"
            /\ UNCHANGED <<pRet, currentWrite, nextWrite, log, streak>>
       ELSE /\ ppc' = "L22"
            /\ log' = Last4(Append(log, "pushT"))
            /\ streak' = IF streak.valid /\ Len(streak.res) <= Size
                         THEN [streak EXCEPT !.res = Append(@, TRUE)] ELSE streak
            /\ UNCHANGED <<pRet, currentWrite, nextWrite>>
    /\ pSteps' = Bump(pSteps)
    /\ UNCHANGED <<buffer, writePos, readPos, pItem, nPush, pushed, popped,
                   pSnap, consAll, cycVars, restVars>>
\* lines 18-20: if (nextWrite == readPos.load(acquire)) return false;
PushCheck ==
    /\ ppc = "L18"
    /\ IF Full(nextWrite, readPos)
       THEN /\ pRet' = "false"
            /\ ppc' = "idle"
            /\ currentWrite' = 0 /\ nextWrite' = 0
            /\ log' = Last4(Append(log, "pushF"))
            /\ streak' = IF streak.valid /\ Len(streak.res) <= Size
                         THEN [streak EXCEPT !.res = Append(@, FALSE)] ELSE streak
       ELSE /\ ppc' = "L22"
            /\ log' = Last4(Append(log, "pushT"))
            /\ streak' = IF streak.valid /\ Len(streak.res) <= Size
                         THEN [streak EXCEPT !.res = Append(@, TRUE)] ELSE streak
            /\ UNCHANGED <<pRet, currentWrite, nextWrite>>
    /\ pSteps' = Bump(pSteps)
    /\ UNCHANGED <<buffer, writePos, readPos, pItem, nPush, pushed, popped,
                   pSnap, consAll, cycVars, restVars>>

\* line 22: buffer[currentWrite] = item; the copy begins
PushSlotBegin ==
    /\ ppc = "L22"
    /\ buffer' = [buffer EXCEPT ![currentWrite] = Partial]
    /\ ppc' = "L22w"
    /\ pSteps' = Bump(pSteps)
    /\ UNCHANGED <<writePos, readPos, prodLocals, nPush, pushed, popped,
                   log, streak, pSnap, consAll, cycVars, restVars>>

\* line 22: buffer[currentWrite] = item; the copy is complete
PushSlotEnd ==
    /\ ppc = "L22w"
    /\ buffer' = [buffer EXCEPT ![currentWrite] = pItem]
    /\ ppc' = "L23"
    /\ pSteps' = Bump(pSteps)
    /\ UNCHANGED <<writePos, readPos, prodLocals, nPush, pushed, popped,
                   log, streak, pSnap, consAll, cycVars, restVars>>

\* lines 23-24: writePos.store(nextWrite, release); return true;
PushStore ==
    /\ ppc = "L23"
    /\ writePos' = nextWrite
    /\ pushed' = Append(pushed, pItem)
    /\ pRet' = "true"
    /\ ppc' = "idle"
    /\ currentWrite' = 0 /\ nextWrite' = 0
    /\ pSteps' = Bump(pSteps)
    /\ UNCHANGED <<buffer, readPos, pItem, nPush, popped, log, streak, pSnap,
                   consAll, cycVars, restVars>>

\* one step of a push call in progress
PushStep == PushLoad \/ PushCheck \/ PushSlotBegin \/ PushSlotEnd \/ PushStore

\* ---- pop (consumer thread) ----

\* what a call pop(item) does on entry
PopEnter ==
    /\ cpc = "idle"
    /\ cpc' = "L28"
    /\ cSteps' = 0
    /\ cSnap' = [r |-> readPos, item |-> item]
    /\ streak' = [streak EXCEPT !.valid = FALSE]
    /\ UNCHANGED <<buffer, writePos, readPos, consLocals, popped, log, prodAll,
                   cycles, out, restVars>>

\* the consumer calls pop(item)
PopCall == PopEnter /\ UNCHANGED cycPc

PopLoadCopyEarly ==
    /\ cpc = "L28"
    /\ currentRead' = readPos
    /\ item' = buffer[readPos]
    /\ cpc' = "L30"
    /\ cSteps' = Bump(cSteps)
    /\ UNCHANGED <<buffer, writePos, readPos, cRet, popped, log, streak,
                   cSnap, prodAll, cycVars, restVars>>
\* line 28: currentRead = readPos.load(relaxed)
PopLoad ==
    /\ cpc = "L28"
    /\ currentRead' = readPos
    /\ cpc' = "L30"
    /\ cSteps' = Bump(cSteps)
    /\ UNCHANGED <<buffer, writePos, readPos, item, cRet, popped, log, streak,
                   cSnap, prodAll, cycVars, restVars>>

PopCheckSpin ==
    /\ cpc = "L30"
    /\ IF Empty(currentRead, writePos)
       THEN /\ cpc' = "L30"
            /\ UNCHANGED <<cRet, currentRead>>
       ELSE /\ cpc' = "L34"
            /\ UNCHANGED <<cRet, currentRead>>
    /\ cSteps' = Bump(cSteps)
    /\ UNCHANGED <<buffer, writePos, readPos, item, popped, log, streak,
                   cSnap, prodAll, cycVars, restVars>>
\* lines 30-32: if (currentRead == writePos.load(acquire)) return false;
PopCheck ==
    /\ cpc = "L30"
    /\ IF Empty(currentRead, writePos)
       THEN /\ cRet' = "false"
            /\ cpc' = "idle"
            /\ currentRead' = 0
       ELSE /\ cpc' = "L34"
            /\ UNCHANGED <<cRet, currentRead>>
    /\ cSteps' = Bump(cSteps)
    /\ UNCHANGED <<buffer, writePos, readPos, item, popped, log, streak,
                   cSnap, prodAll, cycVars, restVars>>

PopCopyMove ==
    /\ cpc = "L34"
    /\ item' = buffer[currentRead]
    /\ buffer' = [buffer EXCEPT ![currentRead] = Garbage]
    /\ cpc' = "L35"
    /\ cSteps' = Bump(cSteps)
    /\ UNCHANGED <<writePos, readPos, currentRead, cRet, popped, log,
                   streak, cSnap, prodAll, cycVars, restVars>>
\* line 34: item = buffer[currentRead]
PopCopy ==
    /\ cpc = "L34"
    /\ item' = buffer[currentRead]
    /\ cpc' = "L35"
    /\ cSteps' = Bump(cSteps)
    /\ UNCHANGED <<buffer, writePos, readPos, currentRead, cRet, popped, log,
                   streak, cSnap, prodAll, cycVars, restVars>>

\* lines 35-36: readPos.store((currentRead + 1) % Size, release); return true;
PopStore ==
    /\ cpc = "L35"
    /\ readPos' = NextRead(currentRead)
    /\ popped' = Append(popped, item)
    /\ log' = Last4(Append(log, "popT"))
    /\ cRet' = "true"
    /\ cpc' = "idle"
    /\ currentRead' = 0
    /\ cSteps' = Bump(cSteps)
    /\ UNCHANGED <<buffer, writePos, item, streak, cSnap, prodAll, cycVars, restVars>>

\* one step of a pop call in progress
PopStep == PopLoad \/ PopCheck \/ PopCopy \/ PopStore

\* ---- one producer thread and one consumer thread ----
Next == PushCall \/ PushLoad \/ PushCheck \/ PushSlotBegin \/ PushSlotEnd \/ PushStore
        \/ PopCall \/ PopLoad \/ PopCheck \/ PopCopy \/ PopStore

Spec == Init /\ [][Next]_vars

\* ---- the fast-path loop of the consumer thread ----

\* a block of all-zero samples
Silence == [i \in 1 .. BlockLen |-> 0]
\* the block the node chain produces from the popped block b
Chain(b) == [i \in 1 .. BlockLen |-> b]

\* a cycle begins: attempt a pop
CyclePop ==
    /\ cycPc = "start"
    /\ cycles < MaxCycles
    /\ PopEnter
    /\ cycPc' = "pop"

\* the pop attempt has returned: run the chain on the block, or emit silence
CycleEmit ==
    /\ cycPc = "pop"
    /\ cpc = "idle"
    /\ out' = IF cRet = "true" THEN Chain(item) ELSE Silence
    /\ cycles' = cycles + 1
    /\ cycPc' = "start"
    /\ UNCHANGED <<buffer, writePos, readPos, log, streak, prodAll, consAll, restVars>>

CycleStep == CyclePop \/ PopLoad \/ PopCheck \/ PopCopy \/ PopStore \/ CycleEmit

NextCycle == PushCall \/ PushLoad \/ PushCheck \/ PushSlotBegin \/ PushSlotEnd \/ PushStore
             \/ CyclePop \/ PopLoad \/ PopCheck \/ PopCopy \/ PopStore \/ CycleEmit

SpecCycle == Init /\ [][NextCycle]_vars

\* the consumer thread keeps being scheduled; nothing is assumed of the producer
FairSpecCycle == SpecCycle /\ WF_vars(CycleStep)

\* ---- the documented thread-safety test (README, Test 3) ----

\* bool isEmpty() const (lines 39-41)
isEmpty == readPos = writePos

\* for (i = 0; i < K; ++i) while (!rb.pop(val)); : another pop only while fewer
\* than K pops have succeeded
TestPopCall ==
    /\ Len(popped) < MaxPush
    /\ PopCall

ProducerDone == ppc = "idle" /\ nPush = MaxPush
ConsumerDone == cpc = "idle" /\ Len(popped) = MaxPush

NextTest == PushCall \/ PushLoad \/ PushCheck \/ PushSlotBegin \/ PushSlotEnd \/ PushStore
            \/ TestPopCall \/ PopLoad \/ PopCheck \/ PopCopy \/ PopStore

SpecTest == Init /\ [][NextTest]_vars

\* both threads of the test are scheduled until they finish
FairSpecTest == SpecTest /\ WF_vars(PushCall \/ PushStep) /\ WF_vars(TestPopCall \/ PopStep)

\* ---- a producer that retries, a consumer that keeps popping ----

\* while (!push(x)) ; for x = 1 .. MaxPush: the producer calls push with the
\* first value not yet accepted; nPush is the number of values attempted
RetryPushCall ==
    /\ ppc = "idle"
    /\ Len(pushed) < MaxPush
    /\ nPush' = Len(pushed) + 1
    /\ pItem' = Len(pushed) + 1
    /\ ppc' = "L15"
    /\ pSteps' = 0
    /\ pSnap' = [w |-> writePos, buf |-> buffer, pushed |-> pushed]
    /\ streak' = IF writePos = readPos /\ cpc = "idle"
                 THEN [valid |-> TRUE, res |-> <<>>]
                 ELSE streak
    /\ UNCHANGED <<buffer, writePos, readPos, currentWrite, nextWrite, pRet,
                   pushed, popped, log, consAll, cycVars, restVars>>

NextRetry == RetryPushCall \/ PushLoad \/ PushCheck \/ PushSlotBegin \/ PushSlotEnd
             \/ PushStore \/ PopCall \/ PopLoad \/ PopCheck \/ PopCopy \/ PopStore

SpecRetry == Init /\ [][NextRetry]_vars

\* both threads are scheduled again and again
FairSpecRetry == SpecRetry /\ WF_vars(RetryPushCall \/ PushStep) /\ WF_vars(PopCall \/ PopStep)

\* ---- a second producer thread on the same queue ----

\* the queue's state and histories that a push never touches
ringNotPushed == <<readPos, ppc, currentWrite, nextWrite, pItem, pRet,
                   cpc, currentRead, item, cRet, nPush, popped, log, streak,
                   pSteps, cSteps, pSnap, cSnap, cycPc, cycles, out>>

\* a push of the first producer is running, or has run, during this push
Overlapping == overlap \/ ppc # "idle" \/ nPush # p2Start

\* the second producer calls push(item); its k-th call passes the value MaxPush + k
Push2Call ==
    /\ p2pc = "idle"
    /\ nPush + n2Push < MaxPush2
    /\ n2Push' = n2Push + 1
    /\ p2Item' = MaxPush + n2Push + 1
    /\ p2pc' = "L15"
    /\ p2Start' = nPush
    /\ overlap' = (overlap \/ ppc # "idle")
    /\ UNCHANGED <<buffer, writePos, pushed, currentWrite2, nextWrite2, p2Ret,
                   ringNotPushed, arenaVars, nodeVars>>

\* lines 15-16
Push2Load ==
    /\ p2pc = "L15"
    /\ currentWrite2' = writePos
    /\ nextWrite2' = NextWrite(writePos)
    /\ p2pc' = "L18"
    /\ overlap' = Overlapping
    /\ UNCHANGED <<buffer, writePos, pushed, p2Item, p2Ret, n2Push, p2Start,
                   ringNotPushed, arenaVars, nodeVars>>

\* lines 18-20
Push2Check ==
    /\ p2pc = "L18"
    /\ IF Full(nextWrite2, readPos)
       THEN /\ p2Ret' = "false"
            /\ p2pc' = "idle"
            /\ currentWrite2' = 0 /\ nextWrite2' = 0
       ELSE /\ p2pc' = "L22"
            /\ UNCHANGED <<p2Ret, currentWrite2, nextWrite2>>
    /\ overlap' = Overlapping
    /\ UNCHANGED <<buffer, writePos, pushed, p2Item, n2Push, p2Start,
                   ringNotPushed, arenaVars, nodeVars>>

\* line 22, the copy begins
Push2SlotBegin ==
    /\ p2pc = "L22"
    /\ buffer' = [buffer EXCEPT ![currentWrite2] = Partial]
    /\ p2pc' = "L22w"
    /\ overlap' = Overlapping
    /\ UNCHANGED <<writePos, pushed, currentWrite2, nextWrite2, p2Item, p2Ret,
                   n2Push, p2Start, ringNotPushed, arenaVars, nodeVars>>

\* line 22, the copy is complete
Push2SlotEnd ==
    /\ p2pc = "L22w"
    /\ buffer' = [buffer EXCEPT ![currentWrite2] = p2Item]
    /\ p2pc' = "L23"
    /\ overlap' = Overlapping
    /\ UNCHANGED <<writePos, pushed, currentWrite2, nextWrite2, p2Item, p2Ret,
                   n2Push, p2Start, ringNotPushed, arenaVars, nodeVars>>

\* lines 23-24
Push2Store ==
    /\ p2pc = "L23"
    /\ writePos' = nextWrite2
    /\ pushed' = Append(pushed, p2Item)
    /\ p2Ret' = "true"
    /\ p2pc' = "idle"
    /\ currentWrite2' = 0 /\ nextWrite2' = 0
    /\ overlap' = Overlapping
    /\ UNCHANGED <<buffer, p2Item, n2Push, p2Start, ringNotPushed, arenaVars, nodeVars>>

\* in the two-producer runs the producers make MaxPush2 calls between them
Push1Call ==
    /\ nPush + n2Push < MaxPush2
    /\ PushCall

Next2P == Push1Call \/ PushLoad \/ PushCheck \/ PushSlotBegin \/ PushSlotEnd \/ PushStore
          \/ Push2Call \/ Push2Load \/ Push2Check \/ Push2SlotBegin \/ Push2SlotEnd
          \/ Push2Store
          \/ PopCall \/ PopLoad \/ PopCheck \/ PopCopy \/ PopStore

Spec2P == Init /\ [][Next2P]_vars

\* the values the consumer will pop if no further push is made: the slots from
\* readPos up to writePos
Live ==
    [i \in 1 .. ((writePos - readPos + Size) % Size) |-> buffer[(readPos + i - 1) % Size]]

\* ---- MemoryArena ----

\* line 64: padding = (alignment - (offset % alignment)) % alignment
Padding(off, al) == (al - (off % al)) % al

ExceedsOrFills(off, pad, size, cap) == (off + pad + size) % Word >= cap
\* line 66: offset + padding + size > buffer.size(), computed in size_t
Exceeds(off, pad, size, cap) == (off + pad + size) % Word > cap

\* size_t used() const (line 83), size_t capacity() const (line 84)
used == offset
capacityOf == capacity

AllocatePadFirst(size, al) ==
    /\ nAlloc < MaxAllocs
    /\ nAlloc' = nAlloc + 1
    /\ LET pad == Padding(offset, al)
           start == (offset + pad) % Word
           ptr == (base + start) % Word
       IN  IF Exceeds(offset, pad, size, capacity)
           THEN /\ offset' = start
                /\ aLast' = [op |-> "allocate", size |-> size, al |-> al, pad |-> pad,
                             before |-> offset, threw |-> TRUE, ptr |-> Throw]
                /\ aCalls' = Append(aCalls, [size |-> size, al |-> al, ptr |-> Throw])
                /\ aCum' = aCum + pad + size
           ELSE /\ offset' = (start + size) % Word
                /\ aLast' = [op |-> "allocate", size |-> size, al |-> al, pad |-> pad,
                             before |-> offset, threw |-> FALSE, ptr |-> ptr]
                /\ aCalls' = Append(aCalls, [size |-> size, al |-> al, ptr |-> ptr])
                /\ aCum' = aCum + pad + size
    /\ UNCHANGED <<capacity, ctorSize, base, aPrev, nReset, ringVars, p2Vars, nodeVars>>
\* lines 63-74: void* allocate(size_t size, size_t alignment)
Allocate(size, al) ==
    /\ nAlloc < MaxAllocs
    /\ nAlloc' = nAlloc + 1
    /\ LET pad == Padding(offset, al)
           start == (offset + pad) % Word
           ptr == (base + start) % Word
       IN  IF Exceeds(offset, pad, size, capacity)
           THEN /\ offset' = offset
                /\ aLast' = [op |-> "allocate", size |-> size, al |-> al, pad |-> pad,
                             before |-> offset, threw |-> TRUE, ptr |-> Throw]
                /\ aCalls' = Append(aCalls, [size |-> size, al |-> al, ptr |-> Throw])
                /\ aCum' = aCum + pad + size
           ELSE /\ offset' = (start + size) % Word
                /\ aLast' = [op |-> "allocate", size |-> size, al |-> al, pad |-> pad,
                             before |-> offset, threw |-> FALSE, ptr |-> ptr]
                /\ aCalls' = Append(aCalls, [size |-> size, al |-> al, ptr |-> ptr])
                /\ aCum' = aCum + pad + size
    /\ UNCHANGED <<capacity, ctorSize, base, aPrev, nReset, ringVars, p2Vars, nodeVars>>

ResetNoRewind ==
    /\ nReset < MaxResets
    /\ nReset' = nReset + 1
    /\ offset' = offset
    /\ aPrev' = aCalls
    /\ aCalls' = <<>>
    /\ aCum' = 0
    /\ aLast' = [op |-> "reset", size |-> 0, al |-> 1, pad |-> 0, before |-> offset,
                 threw |-> FALSE, ptr |-> Throw]
    /\ UNCHANGED <<capacity, ctorSize, base, nAlloc, ringVars, p2Vars, nodeVars>>
\* line 82: void reset() { offset = 0; }
Reset ==
    /\ nReset < MaxResets
    /\ nReset' = nReset + 1
    /\ offset' = 0
    /\ aPrev' = aCalls
    /\ aCalls' = <<>>
    /\ aCum' = 0
    /\ aLast' = [op |-> "reset", size |-> 0, al |-> 1, pad |-> 0, before |-> offset,
                 threw |-> FALSE, ptr |-> Throw]
    /\ UNCHANGED <<capacity, ctorSize, base, nAlloc, ringVars, p2Vars, nodeVars>>

InitArena ==
    /\ RingInit
    /\ P2Init
    /\ \E size \in Capacities, addr \in Bases : ArenaNew(size, addr)
    /\ NodesIdle

NextArena == (\E size \in Sizes, al \in Aligns : Allocate(size, al)) \/ Reset

SpecArena == InitArena /\ [][NextArena]_vars

\* ---- GainNode::processImpl ----
\* Samples and factors are integers: one lane of _mm256_mul_ps and the scalar
\* *= are the same multiplication of the same two operands.

Max2(a, b) == IF a >= b THEN a ELSE b
Lanes(i) == i .. (i + VecWidth - 1)

SimdSizeUp(n) == ((n + VecWidth - 1) \div VecWidth) * VecWidth
\* line 32: simdSize = (buffer.size / 8) * 8
SimdSize(n) == (n \div VecWidth) * VecWidth

\* lines 36-38: load 8 samples at i, multiply by gainVec, store them at i
MulLanes(data, i, g) == [k \in Cells |-> IF k \in Lanes(i) THEN data[k] * g ELSE data[k]]
\* lines 40, 42: buffer.data[i] *= gain
MulOne(data, i, g) == [data EXCEPT ![i] = @ * g]
CountLanes(w, i) == [k \in Cells |-> IF k \in Lanes(i) THEN w[k] + 1 ELSE w[k]]

gainFixed == <<gain, gSize, gIn>>
notGain == <<ringVars, p2Vars, arenaVars, avx, mixVars, fadeVars, engVars>>

\* line 30: process(buffer) enters processImpl; lines 31-33, or 41 without __AVX__
GainCall ==
    /\ gPc = "idle"
    /\ IF avx
       THEN gPc' = "L35" /\ gSimd' = SimdSize(gSize)
       ELSE gPc' = "L42" /\ gSimd' = gSimd
    /\ gI' = 0
    /\ UNCHANGED <<gData, gWrites, gHigh, gainFixed, notGain>>

\* lines 35-39: one iteration of the vector loop, or its exit to line 40
GainVec ==
    /\ gPc = "L35"
    /\ IF gI < gSimd
       THEN /\ gData' = MulLanes(gData, gI, gain)
            /\ gWrites' = CountLanes(gWrites, gI)
            /\ gHigh' = Max2(gHigh, gI + VecWidth - 1)
            /\ gI' = gI + VecWidth
            /\ gPc' = gPc
       ELSE /\ gPc' = "L40"
            /\ gI' = gSimd
            /\ UNCHANGED <<gData, gWrites, gHigh>>
    /\ UNCHANGED <<gSimd, gainFixed, notGain>>

\* line 40: one iteration of the scalar loop over the remainder, or its exit
GainRest ==
    /\ gPc = "L40"
    /\ IF gI < gSize
       THEN /\ gData' = MulOne(gData, gI, gain)
            /\ gWrites' = [gWrites EXCEPT ![gI] = @ + 1]
            /\ gHigh' = Max2(gHigh, gI)
            /\ gI' = gI + 1
            /\ gPc' = gPc
       ELSE /\ gPc' = "done"
            /\ UNCHANGED <<gData, gWrites, gHigh, gI>>
    /\ UNCHANGED <<gSimd, gainFixed, notGain>>

\* line 42: one iteration of the loop of the build without __AVX__, or its exit
GainScalar ==
    /\ gPc = "L42"
    /\ IF gI < gSize
       THEN /\ gData' = MulOne(gData, gI, gain)
            /\ gWrites' = [gWrites EXCEPT ![gI] = @ + 1]
            /\ gHigh' = Max2(gHigh, gI)
            /\ gI' = gI + 1
            /\ gPc' = gPc
       ELSE /\ gPc' = "done"
            /\ UNCHANGED <<gData, gWrites, gHigh, gI>>
    /\ UNCHANGED <<gSimd, gainFixed, notGain>>

InitGain ==
    /\ RingInit
    /\ P2Init
    /\ ArenaNew(MaxCap, 2 * NewAlign)
    /\ avx \in BOOLEAN
    /\ \E g \in Gains, data \in {Ramp, Ones}, n \in 0 .. MaxLen : GainNew(g, data, n)
    /\ MixNew(0, 0, 0)
    /\ FadeNew(1, TRUE)
    /\ EngineNew

NextGain == GainCall \/ GainVec \/ GainRest \/ GainScalar

SpecGain == InitGain /\ [][NextGain]_vars

\* ---- MixerNode::mix ----

Min2(a, b) == IF a <= b THEN a ELSE b

MixLenInputs(n1, n2, no) == Min2(n1, n2)
\* line 73: len = std::min({in1.size, in2.size, out.size})
MixLen(n1, n2, no) == Min2(n1, Min2(n2, no))

\* line 76: simdSize = (len / 8) * 8
MixSimdSize(n) == (n \div VecWidth) * VecWidth

\* lines 78-80: load 8 samples of each input at i, store their sums in out at i
AddLanes(o, a, b, i) == [k \in Cells |-> IF k \in Lanes(i) THEN a[k] + b[k] ELSE o[k]]
\* lines 82, 84: out.data[i] = in1.data[i] + in2.data[i]
AddOne(o, a, b, i) == [o EXCEPT ![i] = a[i] + b[i]]

mixFixed == <<mIn1, mIn2, mSize1, mSize2, mSizeO>>
notMix == <<ringVars, p2Vars, arenaVars, avx, gainVars, fadeVars, engVars>>

\* lines 72-76: mix(in1, in2, out) computes len and, with __AVX__, simdSize
MixCall ==
    /\ mPc = "idle"
    /\ mLen' = MixLen(mSize1, mSize2, mSizeO)
    /\ IF avx
       THEN mPc' = "L77" /\ mSimd' = MixSimdSize(MixLen(mSize1, mSize2, mSizeO))
       ELSE mPc' = "L84" /\ mSimd' = mSimd
    /\ mI' = 0
    /\ UNCHANGED <<mOut, mWrites, mHigh, mixFixed, notMix>>

\* lines 77-81: one iteration of the vector loop, or its exit to line 82
MixVec ==
    /\ mPc = "L77"
    /\ IF mI < mSimd
       THEN /\ mOut' = AddLanes(mOut, mIn1, mIn2, mI)
            /\ mWrites' = CountLanes(mWrites, mI)
            /\ mHigh' = Max2(mHigh, mI + VecWidth - 1)
            /\ mI' = mI + VecWidth
            /\ mPc' = mPc
       ELSE /\ mPc' = "L82"
            /\ mI' = mSimd
            /\ UNCHANGED <<mOut, mWrites, mHigh>>
    /\ UNCHANGED <<mLen, mSimd, mixFixed, notMix>>

\* line 82: one iteration of the scalar loop over the remainder, or its exit
MixRest ==
    /\ mPc = "L82"
    /\ IF mI < mLen
       THEN /\ mOut' = AddOne(mOut, mIn1, mIn2, mI)
            /\ mWrites' = [mWrites EXCEPT ![mI] = @ + 1]
            /\ mHigh' = Max2(mHigh, mI)
            /\ mI' = mI + 1
            /\ mPc' = mPc
       ELSE /\ mPc' = "done"
            /\ UNCHANGED <<mOut, mWrites, mHigh, mI>>
    /\ UNCHANGED <<mLen, mSimd, mixFixed, notMix>>

\* line 84: one iteration of the loop of the build without __AVX__, or its exit
MixScalar ==
    /\ mPc = "L84"
    /\ IF mI < mLen
       THEN /\ mOut' = AddOne(mOut, mIn1, mIn2, mI)
            /\ mWrites' = [mWrites EXCEPT ![mI] = @ + 1]
            /\ mHigh' = Max2(mHigh, mI)
            /\ mI' = mI + 1
            /\ mPc' = mPc
       ELSE /\ mPc' = "done"
            /\ UNCHANGED <<mOut, mWrites, mHigh, mI>>
    /\ UNCHANGED <<mLen, mSimd, mixFixed, notMix>>

InitMix ==
    /\ RingInit
    /\ P2Init
    /\ ArenaNew(MaxCap, 2 * NewAlign)
    /\ avx \in BOOLEAN
    /\ GainNew(2, Ones, 0)
    /\ \E n1 \in 0 .. MaxLen, n2 \in 0 .. MaxLen, no \in 0 .. MaxLen : MixNew(n1, n2, no)
    /\ FadeNew(1, TRUE)
    /\ EngineNew

NextMix == MixCall \/ MixVec \/ MixRest \/ MixScalar

SpecMix == InitMix /\ [][NextMix]_vars

\* ---- FadeNode::processImpl and FadeNode::reset ----
\* A float is modelled as an exact multiple of 1 / FUnit, where FUnit is a
\* multiple of every duration of the model, so that currentSample / duration
\* and the product with a whole sample are exact.  The two IEEE values the
\* division can produce besides a number are kept: 0 / 0 (FNaN) and x / 0
\* (FInf).  currentSample stays far below 2^24, where a float stops counting.

RECURSIVE Fact(_)
Fact(n) == IF n <= 1 THEN 1 ELSE n * Fact(n - 1)
\* the float 1.0f
FUnit == Fact(MaxDur)
\* the result of x / 0.0f for x > 0, larger than every quotient of the model
FInf == FUnit * FUnit * (MaxFadeLen * MaxFadeCalls + 1)
\* the result of 0.0f / 0.0f
FNaN == 0 - (2 * FInf)

\* operator / on floats (lines 58, 59)
FDiv(p, d) == IF d = 0 THEN (IF p = 0 THEN FNaN ELSE FInf) ELSE (p * FUnit) \div d
\* operator - on floats (line 59)
FSub(a, b) == IF a = FNaN \/ b = FNaN THEN FNaN ELSE a - b
\* operator < on floats: false when either side is NaN
FLess(a, b) == a # FNaN /\ b # FNaN /\ a < b
\* std::min(a, b) is (b < a) ? b : a ; std::max(a, b) is (a < b) ? b : a
StdMin(a, b) == IF FLess(b, a) THEN b ELSE a
StdMax(a, b) == IF FLess(a, b) THEN b ELSE a
\* operator *= on floats (line 61)
FMul(x, f) == IF x = FNaN \/ f = FNaN THEN FNaN ELSE (x * f) \div FUnit

\* lines 57-59: the factor applied at position cur
Factor(cur, d, in) ==
    IF in THEN StdMin(FDiv(cur, d), FUnit)
          ELSE StdMax(FSub(FUnit, FDiv(cur, d)), 0)

\* buffers handed to process: n samples of 1.0, or the ramp 1.0, 2.0, ..
FOnes(n) == [k \in 1 .. n |-> FUnit]
FRamp(n) == [k \in 1 .. n |-> k * FUnit]

\* sizes of the buffers: empty, shorter than most ramps, and the longest
FadeLens == {0, 2, MaxFadeLen}

notFade == <<ringVars, p2Vars, arenaVars, avx, gainVars, mixVars, engVars>>

\* line 55: process(buffer) enters processImpl with a buffer of n samples
FadeCall(data) ==
    /\ fPc = "idle"
    /\ nFade < MaxFadeCalls
    /\ nFade' = nFade + 1
    /\ fData' = data
    /\ fI' = 0
    /\ fPc' = "L56"
    /\ UNCHANGED <<duration, currentSample, fadeIn, fLog, nFadeReset, fResetAt, notFade>>

FadeStepNoAdvance ==
    /\ fPc = "L56"
    /\ IF fI < Len(fData)
       THEN LET factor == Factor(currentSample, duration, fadeIn)
                res == FMul(fData[fI + 1], factor)
            IN  /\ fData' = [fData EXCEPT ![fI + 1] = res]
                /\ fLog' = Append(fLog, [in |-> fData[fI + 1], out |-> res, call |-> nFade])
                /\ currentSample' = currentSample
                /\ fI' = fI + 1
                /\ fPc' = fPc
       ELSE /\ fPc' = "idle"
            /\ UNCHANGED <<fData, fLog, currentSample, fI>>
    /\ UNCHANGED <<duration, fadeIn, nFade, nFadeReset, fResetAt, notFade>>
\* lines 56-63: one iteration of the loop, or its exit
FadeStep ==
    /\ fPc = "L56"
    /\ IF fI < Len(fData)
       THEN LET factor == Factor(currentSample, duration, fadeIn)
                res == FMul(fData[fI + 1], factor)
            IN  /\ fData' = [fData EXCEPT ![fI + 1] = res]
                /\ fLog' = Append(fLog, [in |-> fData[fI + 1], out |-> res, call |-> nFade])
                /\ currentSample' = currentSample + 1
                /\ fI' = fI + 1
                /\ fPc' = fPc
       ELSE /\ fPc' = "idle"
            /\ UNCHANGED <<fData, fLog, currentSample, fI>>
    /\ UNCHANGED <<duration, fadeIn, nFade, nFadeReset, fResetAt, notFade>>

\* line 65: void reset() { currentSample = 0; }
FadeReset ==
    /\ fPc = "idle"
    /\ nFadeReset < MaxFadeResets
    /\ nFadeReset' = nFadeReset + 1
    /\ currentSample' = 0
    /\ fLog' = <<>>
    /\ fResetAt' = currentSample
    /\ UNCHANGED <<duration, fadeIn, fData, fPc, fI, nFade, notFade>>

InitFade ==
    /\ RingInit
    /\ P2Init
    /\ ArenaNew(MaxCap, 2 * NewAlign)
    /\ avx = TRUE
    /\ GainNew(2, Ones, 0)
    /\ MixNew(0, 0, 0)
    /\ \E d \in 0 .. MaxDur, in \in BOOLEAN : FadeNew(d, in)
    /\ EngineNew

NextFade ==
    \/ \E n \in FadeLens : \E data \in {FOnes(n), FRamp(n)} : FadeCall(data)
    \/ FadeStep
    \/ FadeReset

SpecFade == InitFade /\ [][NextFade]_vars

\* ---- WavReader::read (wav_io.h) ----
\* A float sample is an exact multiple of 1 / (32768 * EScale): EScale keeps
\* MaxProcess products by a gain counted in halves exact.

\* denominator of the gains: a gain g stands for g / 2
GainDen == 2
EScale == GainDen ^ MaxProcess
\* the float 1.0f
EOne == 32768 * EScale
\* line 33: samples[i] = raw[i] / 32768.0f
Decode(r) == r * EScale

\* std::vector<float>::resize(n): keeps the first elements, appends zeros
Resize(v, n) == [i \in 1 .. n |-> IF i <= Len(v) THEN v[i] ELSE 0]

\* the fields of WavHeader that read uses (lines 7-12)
WavHdr(sr, ch, bps, dataSize) == [sr |-> sr, ch |-> ch, bps |-> bps, dataSize |-> dataSize]
\* a file that cannot be opened
Missing == [kind |-> "missing"]
\* a complete file whose first four bytes are not "RIFF"
BadTag == [kind |-> "badtag", hdr |-> WavHdr(48000, 1, 16, 4), raw |-> <<16384, 16384>>]
\* a file that ends after the bytes "RIFF"
Truncated == [kind |-> "truncated"]
\* a well-formed file of 8-bit samples
File8 == [kind |-> "wav", hdr |-> WavHdr(48000, 1, 8, 3), raw |-> <<>>]
\* well-formed files of 16-bit samples, of lengths 2, 4 and 4
FileA == [kind |-> "wav", hdr |-> WavHdr(48000, 1, 16, 4), raw |-> <<16384, 0 - 32768>>]
FileB == [kind |-> "wav", hdr |-> WavHdr(22050, 2, 16, 8),
          raw |-> <<16384, 16384, 16384, 16384>>]
FileC == [kind |-> "wav", hdr |-> WavHdr(22050, 2, 16, 8),
          raw |-> <<8192, 0 - 8192, 32767, 0>>]
\* the pairs of files handed to loadFiles: short and long inputs in both
\* orders, equal lengths, and each kind of bad file in first and second place
FilePairs == {<<FileA, FileB>>, <<FileB, FileA>>, <<FileB, FileB>>, <<FileB, FileC>>,
              <<FileC, FileA>>,
              <<Missing, FileA>>, <<FileA, Missing>>, <<BadTag, FileB>>, <<FileC, BadTag>>,
              <<Truncated, FileA>>, <<FileB, Truncated>>, <<File8, FileB>>, <<FileA, File8>>}
\* what the uninitialised WavHeader h (line 20) can hold behind the bytes read
Indeterminate == {WavHdr(0, 0, 16, 0), WavHdr(1, 1, 8, 2)}

\* lines 25-35: the header passed the tag test
ReadBody(h, data, samples) ==
    LET count == h.dataSize \div (h.bps \div 8)
    IN  [ret |-> TRUE, sr |-> h.sr, ch |-> h.ch,
         samples |-> IF h.bps = 16
                     THEN [i \in 1 .. count |->
                              Decode(IF i <= Len(data) THEN data[i] ELSE 0)]
                     ELSE Resize(samples, count)]

ReadFailed(samples, sr, ch) == [ret |-> FALSE, sr |-> sr, ch |-> ch, samples |-> samples]

\* lines 16-36: the results read(filename, samples, sr, ch) can have: what it
\* returns and what it leaves in samples, sr and ch
Read(f, samples, sr, ch) ==
    IF f.kind \in {"missing", "badtag"}
    THEN {ReadFailed(samples, sr, ch)}
    ELSE IF f.kind = "truncated"
         THEN {ReadBody(h, <<>>, samples) : h \in Indeterminate}
         ELSE {ReadBody(f.hdr, f.raw, samples)}

\* ---- AudioEngine (ARCHITECTURE.md lines 687-723) ----

\* gains passed to process, in halves: 0.5 and 2.0
EGains == {1, 4}
\* operator * of a sample and a gain
EMul(x, g) == (x * g) \div GainDen

GainProcessNoRest(v, g) ==
    [i \in 1 .. Len(v) |-> IF i <= SimdSize(Len(v)) THEN EMul(v[i], g) ELSE v[i]]
\* gainNode.process(b) on a view of a whole vector: every sample below
\* buffer.size is multiplied by the gain once, by the vector loop or by the
\* loop over the remainder (audio_nodes.h lines 30-44)
GainProcess(v, g) == [i \in 1 .. Len(v) |-> EMul(v[i], g)]

MixProcessWhole(o, a, b) ==
    [i \in 1 .. Len(o) |-> (IF i <= Len(a) THEN a[i] ELSE 0)
                           + (IF i <= Len(b) THEN b[i] ELSE 0)]
\* mixer.mix(b1, b2, out) on views of whole vectors (audio_nodes.h lines 72-86)
MixProcess(o, a, b) ==
    LET len == MixLen(Len(a), Len(b), Len(o))
    IN  [i \in 1 .. Len(o) |-> IF i <= len THEN a[i] + b[i] ELSE o[i]]

\* sizeof(float), the element type of the three vectors (line 689)
SizeofFloat == 4

Now == Members(buffer1, buffer2, outputBuffer, sampleRate, channels)
notEngine == <<ringVars, p2Vars, arenaVars, avx, gainVars, mixVars, fadeVars>>

\* lines 696-701: bool loadFiles(f1, f2)
LoadFiles(f1, f2) ==
    /\ nLoad < MaxLoads
    /\ nLoad' = nLoad + 1
    /\ \E r1 \in Read(f1, buffer1, sampleRate, channels) :
          IF ~r1.ret
          THEN /\ UNCHANGED <<buffer1, buffer2, outputBuffer, sampleRate, channels>>
               /\ eLast' = [op |-> "load", ret |-> FALSE, fresh |-> FALSE, before |-> Now,
                            reads |-> <<[f |-> f1, res |-> r1, samples |-> buffer1,
                                         sr |-> sampleRate, ch |-> channels]>>]
          ELSE \E r2 \in Read(f2, buffer2, r1.sr, r1.ch) :
                  /\ buffer1' = r1.samples
                  /\ buffer2' = r2.samples
                  /\ sampleRate' = r2.sr
                  /\ channels' = r2.ch
                  /\ outputBuffer' =
                         IF r2.ret
                         THEN Resize(outputBuffer, Max2(Len(r1.samples), Len(r2.samples)))
                         ELSE outputBuffer
                  /\ eLast' = [op |-> "load", ret |-> r2.ret, fresh |-> FALSE,
                               before |-> Now,
                               reads |-> <<[f |-> f1, res |-> r1, samples |-> buffer1,
                                            sr |-> sampleRate, ch |-> channels],
                                           [f |-> f2, res |-> r2, samples |-> buffer2,
                                            sr |-> r1.sr, ch |-> r1.ch]>>]
    /\ UNCHANGED <<nProc, notEngine>>

\* history: how many process calls with these gains have followed the last
\* successful loadFiles without another call in between, this one included,
\* and the samples that load left in buffer1 and buffer2
RunOf(g1, g2) ==
    IF eLast.op = "load" /\ eLast.ret
    THEN [k |-> 1, b1 |-> buffer1, b2 |-> buffer2]
    ELSE IF eLast.op = "process" /\ eLast.run.k > 0 /\ eLast.g1 = g1 /\ eLast.g2 = g2
         THEN [eLast.run EXCEPT !.k = @ + 1]
         ELSE [k |-> 0, b1 |-> <<>>, b2 |-> <<>>]

ProcessOnCopies(g1, g2) ==
    /\ nProc < MaxProcess
    /\ nProc' = nProc + 1
    /\ outputBuffer' = MixProcess(outputBuffer, GainProcess(buffer1, g1),
                                  GainProcess(buffer2, g2))
    /\ eLast' = [op |-> "process", ret |-> TRUE,
                 fresh |-> (eLast.op = "load" /\ eLast.ret),
                 before |-> Now, g1 |-> g1, g2 |-> g2, run |-> RunOf(g1, g2)]
    /\ UNCHANGED <<buffer1, buffer2, sampleRate, channels, nLoad, notEngine>>
ProcessAllocating(g1, g2) ==
    /\ nProc < MaxProcess
    /\ nProc' = nProc + 1
    /\ buffer1' = GainProcess(buffer1, g1)
    /\ buffer2' = GainProcess(buffer2, g2)
    /\ outputBuffer' = MixProcess(outputBuffer, GainProcess(buffer1, g1),
                                  GainProcess(buffer2, g2))
    /\ eLast' = [op |-> "process", ret |-> TRUE,
                 fresh |-> (eLast.op = "load" /\ eLast.ret),
                 before |-> Now, g1 |-> g1, g2 |-> g2, run |-> RunOf(g1, g2)]
    /\ offset' = offset + SizeofFloat * Len(outputBuffer)
    /\ UNCHANGED <<sampleRate, channels, nLoad, ringVars, p2Vars, capacity, ctorSize,
                   base, aCalls, aPrev, aCum, aLast, nAlloc, nReset, avx, gainVars,
                   mixVars, fadeVars>>
\* lines 703-718: void process(g1, g2)
Process(g1, g2) ==
    /\ nProc < MaxProcess
    /\ nProc' = nProc + 1
    /\ buffer1' = GainProcess(buffer1, g1)
    /\ buffer2' = GainProcess(buffer2, g2)
    /\ outputBuffer' = MixProcess(outputBuffer, GainProcess(buffer1, g1),
                                  GainProcess(buffer2, g2))
    /\ eLast' = [op |-> "process", ret |-> TRUE,
                 fresh |-> (eLast.op = "load" /\ eLast.ret),
                 before |-> Now, g1 |-> g1, g2 |-> g2, run |-> RunOf(g1, g2)]
    /\ UNCHANGED <<sampleRate, channels, nLoad, notEngine>>

\* AudioEngine(arenaSize) (line 694)
InitEngine ==
    /\ RingInit
    /\ P2Init
    /\ ArenaNew(MaxCap, 2 * NewAlign)
    /\ avx = TRUE
    /\ GainNew(2, Ones, 0)
    /\ MixNew(0, 0, 0)
    /\ FadeNew(1, TRUE)
    /\ EngineNew

NextEngine ==
    \/ \E p \in FilePairs : LoadFiles(p[1], p[2])
    \/ \E g1 \in EGains, g2 \in EGains : Process(g1, g2)

SpecEngine == InitEngine /\ [][NextEngine]_vars

\* ---- properties ----

IsPrefix(s, t) == Len(s) <= Len(t) /\ \A i \in 1 .. Len(s) : s[i] = t[i]

\* C1: with one producer and one consumer, under every interleaving, the values
\* returned by successful pops are a prefix of the values of successful pushes
\* (nothing lost, duplicated or reordered).
C1_FifoPrefix == IsPrefix(popped, pushed)

\* pops have gone once around the ring and a pop has just returned while a push
\* is in progress
C1_Witness ==
    /\ Len(popped) >= Size + 1
    /\ cpc = "idle" /\ cRet = "true"
    /\ ppc = "L22w"

\* C2: the consumer never copies the slot a concurrent push is writing (between
\* that push's full check and its writePos store), and the value a pop copies is
\* the value of a push whose writePos store has already happened.
C2_NoPartialSlot ==
    /\ ~(ppc \in {"L22", "L22w", "L23"} /\ cpc = "L34" /\ currentWrite = currentRead)
    /\ (cpc = "L35" => \E i \in 1 .. Len(pushed) : pushed[i] = item)

\* a pop has copied its slot while a push is in the middle of writing another
C2_Witness ==
    /\ ppc = "L22w" /\ cpc = "L35"
    /\ buffer[currentWrite] = Partial
    /\ currentWrite # currentRead

\* C3: starting from an empty queue, with no pop in between, exactly the first
\* Size-1 push calls return true and the Size-th returns false.
C3_CapacityFromEmpty ==
    streak.valid => \A i \in 1 .. Len(streak.res) : streak.res[i] = (i <= Size - 1)

\* Size pushes in a row since the queue was emptied by pops
C3_Witness ==
    /\ streak.valid /\ Len(streak.res) = Size
    /\ ppc = "idle" /\ pRet = "false"
    /\ Len(popped) >= 1

\* C4: when a push has failed (queue full) and one pop then succeeds, the next
\* push succeeds and the push after it fails, wherever the positions are in the ring.
C4_OneMoreAfterPop ==
    \A i \in 1 .. Len(log) :
        (i + 2 <= Len(log) /\ log[i] = "pushF" /\ log[i + 1] = "popT") =>
            /\ log[i + 2] # "pushF"
            /\ (i + 3 <= Len(log) /\ log[i + 2] = "pushT") => log[i + 3] # "pushT"

\* full, one pop, one push that wraps writePos from Size-1 to 0, full again
C4_Witness ==
    /\ log = <<"pushF", "popT", "pushT", "pushF">>
    /\ writePos = 0 /\ Len(pushed) = Size
    /\ ppc = "idle"

\* C5: a push that finds the queue full returns false and changes nothing:
\* writePos, every slot and the enqueued elements are as they were before the
\* call, and the push did not touch readPos.
C5_FailedPushNoEffect ==
    /\ [](ppc = "idle" /\ pRet = "false" =>
            writePos = pSnap.w /\ buffer = pSnap.buf /\ pushed = pSnap.pushed)
    /\ [][(ppc = "L18" /\ ppc' # ppc /\ Full(nextWrite, readPos)) =>
            (pRet' = "false" /\ ppc' = "idle" /\ readPos' = readPos)]_vars
    /\ [][(ppc = "L15" /\ ppc' # ppc) => readPos' = readPos]_vars

\* a push has just failed on a full queue whose slots all hold pushed values
C5_Witness ==
    /\ ppc = "idle" /\ pRet = "false"
    /\ Count = Size - 1
    /\ Len(popped) >= 1

\* C6: a pop that finds the queue empty returns false and leaves readPos, the
\* caller's output variable, writePos and every slot unchanged.
C6_FailedPopNoEffect ==
    /\ [](cpc = "idle" /\ cRet = "false" =>
            readPos = cSnap.r /\ item = cSnap.item)
    /\ [][(cpc = "L30" /\ cpc' # cpc /\ Empty(currentRead, writePos)) =>
            (cRet' = "false" /\ cpc' = "idle" /\ writePos' = writePos /\ buffer' = buffer)]_vars
    /\ [][(cpc = "L28" /\ cpc' # cpc) => (writePos' = writePos /\ buffer' = buffer)]_vars

\* a pop has just failed on a queue that earlier pops had emptied
C6_Witness ==
    /\ cpc = "idle" /\ cRet = "false"
    /\ Len(popped) >= 1 /\ item = popped[Len(popped)]
    /\ buffer[readPos] # Garbage

\* C7: both positions stay in [0, Size), the number of published and not yet
\* consumed elements is (writePos - readPos) mod Size and at most Size-1, empty
\* is writePos = readPos and full is (writePos+1) mod Size = readPos.
C7_Positions ==
    /\ writePos \in Slots /\ readPos \in Slots
    /\ Count = (writePos - readPos + Size) % Size
    /\ Count <= Size - 1
    /\ (Count = 0 <=> writePos = readPos)
    /\ (Count = Size - 1 <=> (writePos + 1) % Size = readPos)

\* a full queue whose writePos has wrapped behind readPos
C7_Witness == Count = Size - 1 /\ writePos < readPos

PushLines == {"L15", "L18", "L22", "L22w", "L23"}
PopLines == {"L28", "L30", "L34", "L35"}

\* C8: push and pop are wait-free: a call in progress can always take its next
\* step whatever the other thread is doing, and it returns within a fixed number
\* of its own steps.
C8_WaitFree ==
    /\ pSteps <= Cardinality(PushLines)
    /\ cSteps <= Cardinality(PopLines)
    /\ (ppc # "idle" => ENABLED PushStep)
    /\ (cpc # "idle" => ENABLED PopStep)

\* a push ran to completion while the consumer stood still in the middle of a pop
C8_Witness ==
    /\ ppc = "idle" /\ pRet = "true" /\ pSteps = Cardinality(PushLines)
    /\ cpc = "L34" /\ currentRead = pSnap.w

C10_TestTerminates == <>(ProducerDone /\ ConsumerDone /\ isEmpty)

\* C11: with two threads calling push concurrently both pushes can return true
\* while only one of the two values can ever be popped; as long as no two pushes
\* run concurrently (a single producer), every value pushed successfully has
\* been popped or is still in the queue, in order.
C11_LossNeedsTwoProducers == ~overlap => pushed = popped \o Live

\* both producers made one push, both returned true, one value is in the queue
C11_Witness ==
    /\ overlap
    /\ nPush = 1 /\ n2Push = 1
    /\ ppc = "idle" /\ pRet = "true"
    /\ p2pc = "idle" /\ p2Ret = "true"
    /\ cpc = "idle" /\ popped = <<>>
    /\ Len(pushed) = 2 /\ Len(Live) = 1

\* ---- MemoryArena: properties ----

\* the calls of an epoch that returned a region
Returned(calls) == SelectSeq(calls, LAMBDA c : c.ptr # Throw)
SameArgs(c, d) == c.size = d.size /\ c.al = d.al
RegionsOverlap(c, d) ==
    /\ c.size > 0 /\ d.size > 0
    /\ c.ptr < d.ptr + d.size
    /\ d.ptr < c.ptr + c.size

\* C12: in a sequence of allocate calls on a fresh or just-reset arena whose sizes
\* plus alignment paddings add up to at most capacity(), no call throws.
C12_FittingNeverThrows ==
    (aLast.op = "allocate" /\ aLast.threw) => aCum > capacityOf

\* after a reset, a padded second allocation fills the arena exactly
C12_Witness ==
    /\ nReset = 1 /\ Len(aCalls) >= 2
    /\ aLast.op = "allocate" /\ ~aLast.threw /\ aLast.pad > 0
    /\ aCum = capacityOf /\ used = capacityOf

\* C13: every address allocate returns is a multiple of the requested alignment.
C13_AddressAligned ==
    (aLast.op = "allocate" /\ ~aLast.threw) => aLast.ptr % aLast.al = 0

\* C14: allocate throws whenever padding + size exceeds capacity() - used(),
\* for every size a size_t can hold.
C14_ExceedingAlwaysFails ==
    (aLast.op = "allocate" /\ aLast.pad + aLast.size > capacityOf - aLast.before)
        => aLast.threw

\* C15: between resets every returned region lies inside the pool (and below
\* used() right after the call) and no two returned regions overlap.
C15_RegionsInPoolDisjoint ==
    LET R == Returned(aCalls)
    IN  /\ \A i \in 1 .. Len(R) :
               R[i].ptr >= base /\ (R[i].ptr - base) + R[i].size <= capacityOf
        /\ (aLast.op = "allocate" /\ ~aLast.threw) =>
               (aLast.ptr - base) + aLast.size <= used
        /\ \A i, j \in 1 .. Len(R) : i < j => ~RegionsOverlap(R[i], R[j])

\* C16: reset() sets used() to 0, and the same sequence of allocate calls made
\* again after the reset returns the same addresses in the same order.
C16_ResetReplays ==
    /\ aLast.op = "reset" => used = 0
    /\ nReset >= 1 =>
          \A i \in 1 .. Len(aCalls) :
              (i <= Len(aPrev) /\ \A j \in 1 .. i : SameArgs(aCalls[j], aPrev[j]))
                  => aCalls[i].ptr = aPrev[i].ptr

\* two allocations, the second one padded, replayed after a reset
C16_Witness ==
    /\ nReset = 1 /\ Len(aCalls) = 2 /\ Len(aPrev) = 2
    /\ \A j \in 1 .. 2 : SameArgs(aCalls[j], aPrev[j])
    /\ aCalls[1].size = 1 /\ aCalls[2].al = NewAlign
    /\ aCalls[2].ptr = base + NewAlign

\* C17: between resets the addresses of successive successful allocate calls do
\* not decrease, and increase when the earlier allocation has size > 0.
C17_AddressesIncrease ==
    LET R == Returned(aCalls)
    IN  \A i \in 1 .. Len(R) - 1 :
            /\ R[i].ptr <= R[i + 1].ptr
            /\ R[i].size > 0 => R[i].ptr < R[i + 1].ptr

\* C18: 0 <= used() <= capacity() always; used() is 0 after construction;
\* capacity() is the constructor argument and never changes; a successful
\* allocate(size) makes used() grow by at least size.
C18_UsedWithinCapacity ==
    /\ 0 <= used /\ used <= capacityOf
    /\ aLast.op = "new" => used = 0
    /\ capacityOf = ctorSize
    /\ (aLast.op = "allocate" /\ ~aLast.threw) => used >= aLast.before + aLast.size

\* ---- audio nodes: properties ----

\* C19: for every buffer length and factor, GainNode::process multiplies each
\* sample below the length by the factor exactly once (vector prefix and scalar
\* remainder together), and neither loads nor stores any index at or beyond it.
C19_GainEachOnce ==
    /\ \A i \in Cells : gWrites[i] <= 1
    /\ gHigh < gSize
    /\ gPc = "done" =>
          \A i \in Cells :
              IF i < gSize
              THEN gData[i] = gIn[i] * gain /\ gWrites[i] = 1
              ELSE gData[i] = gIn[i] /\ gWrites[i] = 0

\* an AVX run over two full vectors and a remainder of a ramp
C19_Witness ==
    /\ gPc = "done" /\ avx
    /\ gSize = 2 * VecWidth + 1
    /\ gain = 2 /\ gIn = Ramp
    /\ gData[gSize - 1] = 2 * gSize

\* C20: mix sets out[i] = in1[i] + in2[i] for every i below the smallest of the
\* three sizes, each written exactly once, and leaves the rest of out and both
\* inputs unmodified.
C20_MixSums ==
    LET len == Min2(Min2(mSize1, mSize2), mSizeO)
    IN  /\ \A i \in Cells : mWrites[i] <= 1
        /\ mIn1 = In1Data /\ mIn2 = In2Data
        /\ mPc = "done" =>
              \A i \in Cells :
                  IF i < len
                  THEN mOut[i] = In1Data[i] + In2Data[i] /\ mWrites[i] = 1
                  ELSE mOut[i] = OutData[i] /\ mWrites[i] = 0

\* an AVX run in which out is the shortest buffer, one vector and a remainder
C20_Witness ==
    /\ mPc = "done" /\ avx
    /\ mSizeO = VecWidth + 2 /\ mSize1 > mSizeO /\ mSize2 > mSize1
    /\ mOut[mSizeO - 1] = 11 * mSizeO
    /\ mOut[mSizeO] = OutData[mSizeO]


\* ---- FadeNode ----

\* position of the k-th sample processed since construction or the last reset
Pos(k) == k - 1

\* C21: the sample at running position p is multiplied by max(1 - p/D, 0)
\* (fade-out) or min(p/D, 1) (fade-in): at every position p >= D a fade-out
\* has factor exactly 0 and a fade-in factor exactly 1, below D the factor is
\* the linear ramp, and a fade-out with D = 4 turns five ones into
\* 1, 0.75, 0.5, 0.25, 0.
C21_FadeFactors ==
    /\ \A k \in 1 .. Len(fLog) :
          IF Pos(k) >= duration
          THEN fLog[k].out = (IF fadeIn THEN fLog[k].in ELSE 0)
          ELSE fLog[k].out * duration =
                   fLog[k].in * (IF fadeIn THEN Pos(k) ELSE duration - Pos(k))
    /\ (/\ duration = 4 /\ ~fadeIn /\ fPc = "idle" /\ nFade = 1 /\ nFadeReset = 0
        /\ Len(fLog) = 5 /\ \A k \in 1 .. 5 : fLog[k].in = FUnit)
       => fData = <<FUnit, (3 * FUnit) \div 4, FUnit \div 2, FUnit \div 4, 0>>

\* C22: the position persists across calls until reset: the k-th sample
\* processed since construction or the last reset gets the factor of position
\* k - 1 whatever calls the samples came in, so two calls on X and Y give what
\* one call on X \o Y gives, and after reset() the node is where a freshly
\* constructed node is.
C22_FadePersists ==
    /\ currentSample = Len(fLog)
    /\ \A k \in 1 .. Len(fLog) :
          fLog[k].out = FMul(fLog[k].in, Factor(Pos(k), duration, fadeIn))

\* a node that had advanced was reset and then processed two buffers, the
\* second of which crossed the end of the ramp
C22_Witness ==
    /\ fPc = "idle" /\ nFadeReset = 1 /\ fResetAt > 0
    /\ duration >= 2
    /\ Len(fLog) > duration
    /\ fLog[1].call # fLog[Len(fLog)].call
    /\ \E k \in 1 .. Len(fLog) :
          /\ Pos(k) < duration /\ Pos(k) > 0
          /\ fLog[k].call = fLog[Len(fLog)].call
          /\ fLog[k].out # fLog[k].in /\ fLog[k].out # 0

\* ---- AudioEngine and WavReader ----

\* the contribution of input v to output index i under gain g, an input
\* counting as zero beyond its own length
Term(v, i, g) == IF i <= Len(v) THEN EMul(v[i], g) ELSE 0
\* process was called directly after a successful loadFiles
FreshProcess == eLast.op = "process" /\ eLast.fresh

\* C23: after a successful load of inputs of different lengths, process
\* leaves an output of the longer length in which the shorter input counts
\* as zero beyond its own length: output[i] = gA*A[i] + gB*B[i] below the
\* shorter length and the longer input's sample times its gain from there on.
C23_ShorterCountsAsZero ==
    (FreshProcess /\ Len(eLast.before.b1) # Len(eLast.before.b2)) =>
        /\ Len(outputBuffer) = Max2(Len(eLast.before.b1), Len(eLast.before.b2))
        /\ \A i \in 1 .. Len(outputBuffer) :
              outputBuffer[i] = Term(eLast.before.b1, i, eLast.g1)
                                + Term(eLast.before.b2, i, eLast.g2)

\* C24: for two inputs of equal length, a single process after the load
\* leaves output[i] = gA*A[i] + gB*B[i] at every index i.
C24_EqualLengthsMix ==
    (FreshProcess /\ Len(eLast.before.b1) = Len(eLast.before.b2)) =>
        /\ Len(outputBuffer) = Len(eLast.before.b1)
        /\ \A i \in 1 .. Len(outputBuffer) :
              outputBuffer[i] = EMul(eLast.before.b1[i], eLast.g1)
                                + EMul(eLast.before.b2[i], eLast.g2)

\* two 4-sample inputs of one constant value, gains 0.5 and 0.5: the output
\* is 4 samples of that constant
C24_Witness ==
    /\ FreshProcess /\ nLoad = 1 /\ nProc = 1
    /\ eLast.g1 = 1 /\ eLast.g2 = 1
    /\ eLast.before.b1 = [i \in 1 .. 4 |-> Decode(16384)]
    /\ eLast.before.b2 = eLast.before.b1
    /\ outputBuffer = eLast.before.b1

\* C25: whenever loadFiles returns false, the engine's samples, output
\* storage, sample rate and channel count are what they were before the call.
C25_LoadAllOrNothing ==
    (eLast.op = "load" /\ ~eLast.ret) => Now = eLast.before

\* a file read must reject: unreadable, wrong tag, truncated header, or
\* a bits-per-sample field other than 16
Malformed(f) == f.kind \in {"missing", "badtag", "truncated"} \/ f.hdr.bps # 16

\* C26: read returns false and leaves samples, sr and ch unmodified whenever
\* the file cannot be opened or its header is malformed, and returns true
\* only with samples decoded from 16-bit integers into [-1, 1).
C26_ReadFailsCleanly ==
    eLast.op = "load" =>
        \A k \in 1 .. Len(eLast.reads) :
            LET r == eLast.reads[k]
            IN  /\ Malformed(r.f) =>
                      /\ ~r.res.ret
                      /\ r.res.samples = r.samples
                      /\ r.res.sr = r.sr /\ r.res.ch = r.ch
                /\ r.res.ret =>
                      /\ ~Malformed(r.f)
                      /\ r.res.samples = [i \in 1 .. Len(r.f.raw) |-> Decode(r.f.raw[i])]
                      /\ \A i \in 1 .. Len(r.res.samples) :
                            r.res.samples[i] >= 0 - EOne /\ r.res.samples[i] < EOne

\* C27: process performs no allocation: it leaves arena.used() and the
\* lengths of the two input buffers and of the output buffer unchanged.
C27_ProcessAllocatesNothing ==
    [][nProc' # nProc =>
          /\ used' = used
          /\ Len(buffer1') = Len(buffer1)
          /\ Len(buffer2') = Len(buffer2)
          /\ Len(outputBuffer') = Len(outputBuffer)]_vars

\* a process call that rewrote the samples of all three buffers
C27_Witness ==
    /\ eLast.op = "process"
    /\ Len(buffer1) > 0 /\ Len(buffer2) > 0
    /\ buffer1 # eLast.before.b1
    /\ buffer2 # eLast.before.b2
    /\ outputBuffer # eLast.before.out

\* C28: after a successful load the two input buffers and the output buffer
\* are regions of the engine's arena, so arena.used() is at least their
\* total size in bytes.
C28_BuffersFromArena ==
    (eLast.op = "load" /\ eLast.ret) =>
        used >= SizeofFloat * (Len(buffer1) + Len(buffer2) + Len(outputBuffer))

\* ---- single writers ----

\* C29: each position has a single writer: no step of push changes readPos
\* and no step of pop changes writePos or a slot; a successful push changes
\* exactly one slot, the one at the index writePos had before the call, and
\* then writePos; a successful pop changes only readPos and the caller's
\* output variable.
C29_SingleWriter ==
    /\ [][ppc' # ppc => readPos' = readPos]_vars
    /\ [][cpc' # cpc => (writePos' = writePos /\ buffer' = buffer)]_vars
    /\ [][buffer' # buffer =>
            /\ ppc \in {"L22", "L22w"}
            /\ writePos' = writePos
            /\ \A s \in Slots \ {writePos} : buffer'[s] = buffer[s]]_vars
    /\ [][writePos' # writePos =>
            /\ ppc = "L23" /\ ppc' = "idle" /\ pRet' = "true"
            /\ buffer' = buffer /\ buffer[writePos] = pItem
            /\ writePos' = NextWrite(writePos)]_vars
    /\ [](ppc = "idle" /\ pRet = "true" =>
            /\ writePos = NextWrite(pSnap.w)
            /\ buffer[pSnap.w] = pushed[Len(pushed)]
            /\ \A s \in Slots \ {pSnap.w} : buffer[s] = pSnap.buf[s])
    /\ [][readPos' # readPos =>
            /\ cpc = "L35" /\ cpc' = "idle" /\ cRet' = "true"
            /\ readPos' = NextRead(readPos) /\ item' = item]_vars
    /\ [](cpc = "idle" /\ cRet = "true" =>
            readPos = NextRead(cSnap.r) /\ item = popped[Len(popped)])

\* a push and a pop have both succeeded after the positions wrapped around,
\* the push having overwritten a slot that was popped before
C29_Witness ==
    /\ ppc = "idle" /\ pRet = "true"
    /\ cpc = "idle" /\ cRet = "true"
    /\ Len(pushed) > Size
    /\ pSnap.buf[pSnap.w] \in 1 .. MaxPush
    /\ buffer[pSnap.w] # pSnap.buf[pSnap.w]
    /\ item # cSnap.item

\* ---- failed allocations ----

\* offset after the first k calls of the list if the calls that threw had
\* never been made
RECURSIVE OffsetSkipping(_, _)
OffsetSkipping(calls, k) ==
    IF k = 0
    THEN 0
    ELSE LET o == OffsetSkipping(calls, k - 1)
             c == calls[k]
         IN  IF c.ptr = Throw THEN o ELSE (o + Padding(o, c.al) + c.size) % Word

C31_RetryDelivers ==
    /\ \A k \in 1 .. MaxPush :
          (nPush >= k) ~> (Len(popped) >= k /\ popped[k] = k)
    /\ <>[](popped = [k \in 1 .. MaxPush |-> k])

\* the last value was refused by a full queue, retried after a pop and
\* accepted
C31_Witness ==
    /\ log = <<"pushF", "popT", "pushT", "popT">>
    /\ pItem = MaxPush /\ Len(pushed) = MaxPush
    /\ Len(popped) = MaxPush - 1
    /\ ppc = "idle" /\ pRet = "true"

\* ---- repeated passes of the engine ----

\* x times (g / GainDen) to the power k
PowMul(x, g, k) == (x * (g ^ k)) \div (GainDen ^ k)

\* C32: process applies the gains in place to the loaded inputs, so it is not
\* idempotent: after k consecutive process(gA, gB) calls following one load
\* the first input holds gA^k times its loaded samples, the second gB^k times
\* its loaded samples, and the output on the common prefix is
\* gA^k*A[i] + gB^k*B[i].
C32_GainsCompound ==
    (eLast.op = "process" /\ eLast.run.k >= 1) =>
        LET k == eLast.run.k
            A == eLast.run.b1
            B == eLast.run.b2
        IN  /\ buffer1 = [i \in 1 .. Len(A) |-> PowMul(A[i], eLast.g1, k)]
            /\ buffer2 = [i \in 1 .. Len(B) |-> PowMul(B[i], eLast.g2, k)]
            /\ \A i \in 1 .. Min2(Len(A), Len(B)) :
                  outputBuffer[i] = PowMul(A[i], eLast.g1, k) + PowMul(B[i], eLast.g2, k)

\* a second process call with the same two different gains changed the
\* inputs and the output once more
C32_Witness ==
    /\ eLast.op = "process" /\ eLast.run.k = 2
    /\ eLast.g1 # eLast.g2
    /\ Len(buffer1) > 0 /\ Len(buffer2) > 0
    /\ buffer1 # eLast.before.b1 /\ eLast.before.b1 # eLast.run.b1
    /\ buffer2 # eLast.before.b2
    /\ outputBuffer # eLast.before.out

\* C33: process writes only the output indices below min(len(A), len(B)):
\* every index from there on keeps the value it held before the call; and
\* loadFiles resizes the output storage without clearing it, so the values of
\* an earlier pass stay at those indices through a load and the next process.
C33_StaleTail ==
    /\ eLast.op = "process" =>
          /\ Len(outputBuffer) = Len(eLast.before.out)
          /\ \A i \in 1 .. Len(outputBuffer) :
                i > Min2(Len(buffer1), Len(buffer2)) =>
                    outputBuffer[i] = eLast.before.out[i]
    /\ eLast.op = "load" =>
          \A i \in 1 .. Min2(Len(outputBuffer), Len(eLast.before.out)) :
              outputBuffer[i] = eLast.before.out[i]

\* load, process, load with a shorter first input, process: the last two
\* output samples are still the sums the first pass wrote
C33_Witness ==
    /\ nLoad = 2 /\ nProc = 2
    /\ eLast.op = "process" /\ eLast.fresh
    /\ Len(buffer1) = 2 /\ Len(buffer2) = 4 /\ Len(outputBuffer) = 4
    /\ outputBuffer[3] # 0 /\ outputBuffer[4] # 0
    /\ outputBuffer[3] # buffer2[3]
    /\ outputBuffer[1] # eLast.before.out[1]
====
